---- MODULE Spec2Model ----
(***************************************************************************)
(* Session and message-lifecycle coordinator of the two-party chat relay:  *)
(* SocketHandler (socket.io event handlers), MessageStore (bounded ledger  *)
(* and presence registry), AuthService (credential table) and the parts of *)
(* the React client (ChatRoom / MessageBubble) that drive seen-once        *)
(* removal.                                                                *)
(*                                                                         *)
(* A "socket" of the model is a connection slot: socket.io gives every     *)
(* connection a fresh id, and the server keeps nothing about an id once    *)
(* its disconnect handler has run, so a slot taken again after its         *)
(* connection closed stands for a connection with a new id.                *)
(***************************************************************************)
EXTENDS Integers, Sequences, FiniteSets, TLC

VARIABLES
    status,            \* socket -> "idle" | "open" | "closed"  (socket.io connection)
    connectedUsers,    \* socket -> username | NoUser      (SocketHandler.connectedUsers)
    chatRoom,          \* sockets in the socket.io room 'chat-room'
    activeConnections, \* MessageStore.activeConnections (set of usernames)
    messages,          \* MessageStore.messages, newest first
    nextId,            \* source of fresh ids (generateMessageId)
    lastEvent,         \* the call handled last: [socket, event, id, removed, key, data]
    emitted,           \* the events the last handler emitted: set of Ev(...)
    removedCount,      \* socket -> id -> number of message-removed received
    currentUser,       \* ChatRoom.currentUser state of the client on a socket
    clientMessages,    \* ChatRoom.messages state of the client on a socket
    newMessage,        \* ChatRoom.newMessage state: the text in the input box
    seenOnceRevealed,  \* <<socket, id>>: MessageBubble.seenOnceRevealed of a shown bubble
    timerHandled,      \* <<socket, id>>: the sender-side timer of the bubble has fired
                       \* and the server has handled its seen-once-viewed
    now,               \* Date.now(), in ms
    localStorage,      \* the item 'chat_token' of the browser: << >> or <<token>>
    issued,            \* << >>, or <<[at, secretKey]>>: when and for which secret
                       \* the token that was generated last was generated
    app,               \* App's state: [loading, isAuthenticated, currentUser]
    dropped,           \* sockets whose transport is gone on the client's side
                       \* while the server has not handled their disconnect
    callState          \* socket -> the call state of its client (ChatRoom,
                       \* WebRTCService)

vars == << status, connectedUsers, chatRoom, activeConnections, messages, nextId,
           lastEvent, emitted, removedCount, currentUser, clientMessages,
           newMessage, seenOnceRevealed, timerHandled, now, localStorage, issued,
           app, dropped, callState >>

\* what only the browser's App and the token service change
sessionVars == << now, localStorage, issued, app >>

-----------------------------------------------------------------------------
(* Bounds of the model *)

NumSockets == 2         \* connection slots that can be open at once
MaxSent == 1            \* messages accepted in Spec
MaxStored == 11         \* messages added in SpecStore
MaxChat == 11           \* messages accepted in SpecChat
MaxSeenOnceId == 3      \* in SpecStore and SpecChat only the first messages
                        \* may be seen-once
MaxInput == 1           \* messages accepted in SpecMessage
MaxLen == 2             \* characters of the text typed in SpecMessage
MaxLate == 1            \* messages accepted in SpecLate
MaxReactId == 2         \* in SpecReact the first messages are reacted to
MaxForged == 2          \* messages accepted in SpecForge
MaxOutbox == 2          \* events of a client the server has yet to handle

Sockets == 1..NumSockets

-----------------------------------------------------------------------------
(* AuthService: the credential table *)

VALID_KEYS == {"Chaithu143", "Geethu143"}

USER_MAPPING == [k \in VALID_KEYS |->
                    IF k = "Chaithu143" THEN "Chaitanya" ELSE "Geetha"]

\* Map.get on a missing key gives undefined, getUsername gives '' for an
\* unmapped key: both are falsy and are one value here.
NoUser == ""

\* validateSecretKey that accepts every key
validateSecretKeyAny(key) == TRUE

validateSecretKey(key) == key \in VALID_KEYS

getUsername(secretKey) ==
    IF secretKey \in DOMAIN USER_MAPPING THEN USER_MAPPING[secretKey] ELSE NoUser

\* the secrets a client may send
Secrets == VALID_KEYS \cup {"wrong"}

-----------------------------------------------------------------------------
(* MessageStore *)

MAX_MESSAGES == 10

\* addMessage without the FIFO limit
addMessageUnbounded(msgs, message) == <<message>> \o msgs

\* addMessage that keeps the oldest MAX_MESSAGES: slice(-MAX_MESSAGES)
addMessageDropsNewest(msgs, message) ==
    LET unshifted == <<message>> \o msgs
    IN  IF Len(unshifted) > MAX_MESSAGES
        THEN SubSeq(unshifted, 2, MAX_MESSAGES + 1)
        ELSE unshifted

\* unshift, then slice(0, MAX_MESSAGES)
addMessage(msgs, message) ==
    LET unshifted == <<message>> \o msgs
    IN  IF Len(unshifted) > MAX_MESSAGES
        THEN SubSeq(unshifted, 1, MAX_MESSAGES)
        ELSE unshifted

\* a copy of the array, in storage order
getMessages(msgs) == msgs

\* Array.prototype.findIndex: the first index whose id matches, 0 for -1
findIndex(msgs, messageId) ==
    IF \E i \in 1..Len(msgs) : msgs[i].id = messageId
    THEN CHOOSE i \in 1..Len(msgs) :
            /\ msgs[i].id = messageId
            /\ \A j \in 1..(i - 1) : msgs[j].id # messageId
    ELSE 0

\* splice(index, 1)
splice(msgs, index) ==
    SubSeq(msgs, 1, index - 1) \o SubSeq(msgs, index + 1, Len(msgs))

\* removeSeenOnceMessage that reports the removal and leaves the message
removeSeenOnceMessageNoSplice(msgs, messageId) ==
    LET index == findIndex(msgs, messageId)
    IN  IF index # 0 /\ msgs[index].seenOnce
        THEN [messages |-> msgs, removed |-> TRUE]
        ELSE [messages |-> msgs, removed |-> FALSE]

\* removeSeenOnceMessage that does not look at the seenOnce flag
removeAnyMessage(msgs, messageId) ==
    LET index == findIndex(msgs, messageId)
    IN  IF index # 0
        THEN [messages |-> splice(msgs, index), removed |-> TRUE]
        ELSE [messages |-> msgs, removed |-> FALSE]

\* removeSeenOnceMessage that reports a removal for an id it does not find
removeSeenOnceMessageMissingTrue(msgs, messageId) ==
    LET index == findIndex(msgs, messageId)
    IN  IF index = 0
        THEN [messages |-> msgs, removed |-> TRUE]
        ELSE IF msgs[index].seenOnce
        THEN [messages |-> splice(msgs, index), removed |-> TRUE]
        ELSE [messages |-> msgs, removed |-> FALSE]

\* the ledger after the call, and the value returned
removeSeenOnceMessage(msgs, messageId) ==
    LET index == findIndex(msgs, messageId)
    IN  IF index # 0 /\ msgs[index].seenOnce
        THEN [messages |-> splice(msgs, index), removed |-> TRUE]
        ELSE [messages |-> msgs, removed |-> FALSE]

clearMessages == << >>

addConnection(conns, userId) == conns \cup {userId}

\* removeConnection that removes nothing
removeConnectionNone(conns, userId) == conns

removeConnection(conns, userId) == conns \ {userId}

\* hasConnection asked about the secret instead of the username
hasConnectionBySecret(conns, userId) == userId \in (conns \cap VALID_KEYS)

hasConnection(conns, userId) == userId \in conns

getConnectionCount(conns) == Cardinality(conns)

-----------------------------------------------------------------------------
(* Events sent to clients.  Every event has the same fields; a field an     *)
(* event does not carry holds its empty value.                             *)

Ev(to, event, id, user, error, msgs) ==
    [to |-> to, event |-> event, id |-> id, user |-> user, error |-> error,
     msgs |-> msgs]

\* io.emit(...) in place of socket.emit(...): every socket
ToEverySocket(s, event, id, user, error, msgs) ==
    {Ev(t, event, id, user, error, msgs) : t \in 1..NumSockets}

\* socket.emit(...)
ToSocket(s, event, id, user, error, msgs) == {Ev(s, event, id, user, error, msgs)}

\* io.emit(...) in place of io.to('chat-room').emit(...): every socket
ToRoomAndOutside(room, event, id, user, error, msgs) ==
    {Ev(t, event, id, user, error, msgs) : t \in 1..NumSockets}

\* io.to('chat-room').emit(...): every socket in the room
ToRoom(room, event, id, user, error, msgs) ==
    {Ev(t, event, id, user, error, msgs) : t \in room}

\* io.to('chat-room') in place of socket.to('chat-room'): the sender included
ToOthersAndSender(room, s, event, id, user, error, msgs) ==
    {Ev(t, event, id, user, error, msgs) : t \in room}

\* socket.to('chat-room').emit(...): every socket in the room but the sender
ToOthers(room, s, event, id, user, error, msgs) ==
    {Ev(t, event, id, user, error, msgs) : t \in room \ {s}}

-----------------------------------------------------------------------------
(* Strings.  A string is its leading characters, spelled out, and the      *)
(* number of further characters (of a base64 payload) that are not.        *)

Str(chars, more) == [chars |-> chars, more |-> more]

length(str) == Len(str.chars) + str.more

RECURSIVE replaceAll(_, _, _)
\* String.prototype.replace(/c/g, by) on the spelled-out characters
replaceAll(chars, c, by) ==
    IF chars = << >> THEN << >>
    ELSE (IF Head(chars) = c THEN by ELSE <<Head(chars)>>)
            \o replaceAll(Tail(chars), c, by)

\* sanitizeText with replace('<', ...) in place of replace(/</g, ...): only
\* the first "<" is replaced
sanitizeTextFirstOnly(text) ==
    LET first == IF \E i \in 1..Len(text.chars) : text.chars[i] = "<"
                 THEN CHOOSE i \in 1..Len(text.chars) :
                         /\ text.chars[i] = "<"
                         /\ \A j \in 1..(i - 1) : text.chars[j] # "<"
                 ELSE 0
        lt    == IF first = 0 THEN text.chars
                 ELSE SubSeq(text.chars, 1, first - 1) \o <<"&", "l", "t", ";">>
                         \o SubSeq(text.chars, first + 1, Len(text.chars))
        gt    == replaceAll(lt, ">", <<"&", "g", "t", ";">>)
        quot  == replaceAll(gt, "\"", <<"&", "q", "u", "o", "t", ";">>)
        apos  == replaceAll(quot, "'", <<"&", "#", "x", "2", "7", ";">>)
        slash == replaceAll(apos, "/", <<"&", "#", "x", "2", "F", ";">>)
    IN  Str(slash, text.more)

sanitizeText(text) ==
    LET lt    == replaceAll(text.chars, "<", <<"&", "l", "t", ";">>)
        gt    == replaceAll(lt, ">", <<"&", "g", "t", ";">>)
        quot  == replaceAll(gt, "\"", <<"&", "q", "u", "o", "t", ";">>)
        apos  == replaceAll(quot, "'", <<"&", "#", "x", "2", "7", ";">>)
        slash == replaceAll(apos, "/", <<"&", "#", "x", "2", "F", ";">>)
    IN  Str(slash, text.more)

IMAGE_LIMIT == 3 * 1024 * 1024

\* (content.length * 3) / 4 > 3 * 1024 * 1024, without the division
imageTooLarge(content) == length(content) * 3 > IMAGE_LIMIT * 4

Range(seq) == {seq[i] : i \in 1..Len(seq)}

Ids(msgs) == {msgs[i].id : i \in 1..Len(msgs)}

\* An optional field holds no value or one: a field that an object does not
\* have is Undefined, a field that holds v is Some(v).
Undefined == << >>

Some(v) == <<v>>

\* the payload of the message event as the client builds it;
\* disappearingPhoto, replyTo and duration are optional
MessageData(type, content, seenOnce, disappearingPhoto, replyTo, duration) ==
    [type |-> type, content |-> content, seenOnce |-> seenOnce,
     disappearingPhoto |-> disappearingPhoto, replyTo |-> replyTo,
     duration |-> duration]

\* a text payload as handleSendMessage and handleSendSeenOnce build it
TextData(content, seenOnce) ==
    MessageData("text", content, seenOnce, Undefined, Undefined, Undefined)

\* obj[field], Undefined for a field the object does not have
Field(obj, field) == IF field \in DOMAIN obj THEN obj[field] ELSE Undefined

-----------------------------------------------------------------------------
(* The client on a socket: ChatRoom's listeners                            *)

Count(f, id) == IF id \in DOMAIN f THEN f[id] ELSE 0

Incr(f, id) == [i \in DOMAIN f \cup {id} |-> IF i = id THEN Count(f, id) + 1 ELSE f[i]]

NoCounts == [i \in {} |-> 0]

For(s, E, event) == {e \in E : e.to = s /\ e.event = event}

\* setMessages on messages-history, new-message and message-removed
clientMessagesAfter(s, E) ==
    IF For(s, E, "messages-history") # {}
    THEN (CHOOSE e \in For(s, E, "messages-history") : TRUE).msgs
    ELSE IF For(s, E, "new-message") # {}
    THEN clientMessages[s] \o (CHOOSE e \in For(s, E, "new-message") : TRUE).msgs
    ELSE IF For(s, E, "message-removed") # {}
    THEN LET gone == (CHOOSE e \in For(s, E, "message-removed") : TRUE).id
         IN  SelectSeq(clientMessages[s], LAMBDA m : m.id # gone)
    ELSE clientMessages[s]

\* App's useState initial values
AppStart == [loading |-> TRUE, isAuthenticated |-> FALSE, currentUser |-> ""]

\* ChatRoom's 'login-error' listener, which exists while App shows ChatRoom:
\* alert('Invalid credentials'), onLogout()
LoggedOut(E) ==
    /\ app.isAuthenticated
    /\ \E e \in E : e.event = "login-error" /\ e.to \notin dropped

\* App.handleLogout: clearToken, window.location.reload(); the page that is
\* loaded mounts App anew and the socket of the old page loses its transport
appAfter(E) == IF LoggedOut(E) THEN AppStart ELSE app

localStorageAfter(E) == IF LoggedOut(E) THEN << >> ELSE localStorage

droppedAfter(E) ==
    IF LoggedOut(E)
    THEN dropped \cup {e.to : e \in {d \in E : d.event = "login-error"}}
    ELSE dropped

\* setCurrentUser on login-success
currentUserAfter(s, E) ==
    IF For(s, E, "login-success") # {}
    THEN (CHOOSE e \in For(s, E, "login-success") : TRUE).user
    ELSE currentUser[s]

removedCountAfter(s, E) ==
    IF For(s, E, "message-removed") # {}
    THEN Incr(removedCount[s], (CHOOSE e \in For(s, E, "message-removed") : TRUE).id)
    ELSE removedCount[s]

\* The handler for `event` from socket s ran and emitted E: the events reach
\* the clients, whose listeners run.
\* removed: the call took a message out of the ledger (removeSeenOnceMessage
\* returned true, or addMessage dropped one); key: the secret of a login
Call(s, event, id, removed, key) ==
    [socket |-> s, event |-> event, id |-> id, removed |-> removed, key |-> key,
     data |-> << >>]

\* a signaling event and the payload it came with
CallWith(s, event, data) == [Call(s, event, 0, FALSE, "") EXCEPT !.data = data]

Handled(s, event, id, removed, key, E) ==
    /\ lastEvent' = Call(s, event, id, removed, key)
    /\ emitted' = E
    /\ clientMessages' = [t \in Sockets |-> clientMessagesAfter(t, E)]
    /\ currentUser' = [t \in Sockets |-> currentUserAfter(t, E)]
    /\ removedCount' = [t \in Sockets |-> removedCountAfter(t, E)]
    /\ app' = appAfter(E)
    /\ localStorage' = localStorageAfter(E)
    /\ dropped' = droppedAfter(E)
    /\ UNCHANGED << now, issued, callState >>

Emit(s, event, id, E) == Handled(s, event, id, FALSE, "", E)

\* a handled call, and the sender its payload named, if it named one
HandledFrom(s, event, id, removed, data, E) ==
    /\ lastEvent' = [Call(s, event, id, removed, "") EXCEPT
                        !.data = Field(data, "senderKey")]
    /\ emitted' = E
    /\ clientMessages' = [t \in Sockets |-> clientMessagesAfter(t, E)]
    /\ currentUser' = [t \in Sockets |-> currentUserAfter(t, E)]
    /\ removedCount' = [t \in Sockets |-> removedCountAfter(t, E)]
    /\ app' = appAfter(E)
    /\ localStorage' = localStorageAfter(E)
    /\ dropped' = droppedAfter(E)
    /\ UNCHANGED << now, issued, callState >>

-----------------------------------------------------------------------------
(* SocketHandler *)

\* nothing typed in any input box
NothingTyped == [s \in Sockets |-> << >>]

\* ChatRoom's inCall and incomingCall, WebRTCService's peerConnection and
\* localStream (acquired together), whether the user started or accepted
\* the call the client is in, whether the browser lets the page use camera
\* and microphone, and the events the client has emitted that the server has
\* not handled yet, in the order of emission
NoCall == [inCall |-> FALSE, incomingCall |-> FALSE, peerConnection |-> FALSE,
           consented |-> FALSE, permission |-> FALSE, outbox |-> << >>]

\* the server and the clients after construction, whatever has been typed
Constructed ==
    /\ status = [s \in Sockets |-> "idle"]
    /\ connectedUsers = [s \in Sockets |-> NoUser]
    /\ chatRoom = {}
    /\ activeConnections = {}
    /\ messages = << >>
    /\ nextId = 1
    /\ lastEvent = Call(0, "none", 0, FALSE, "")
    /\ emitted = {}
    /\ removedCount = [s \in Sockets |-> NoCounts]
    /\ currentUser = [s \in Sockets |-> NoUser]
    /\ clientMessages = [s \in Sockets |-> << >>]
    /\ seenOnceRevealed = {}
    /\ timerHandled = {}
    /\ now = 0
    /\ localStorage = << >>
    /\ issued = << >>
    /\ app = AppStart
    /\ dropped = {}
    /\ callState = [s \in Sockets |-> NoCall]

Init == Constructed /\ newMessage = NothingTyped

\* io.on('connection'): a new socket; its handlers are registered.  The new
\* connection takes the lowest idle slot.
handleConnection(s) ==
    /\ status[s] # "open"
    /\ \A t \in Sockets : t < s => status[t] = "open"
    /\ status' = [status EXCEPT ![s] = "open"]
    /\ Emit(s, "connection", 0, {})
    /\ UNCHANGED << connectedUsers, chatRoom, activeConnections, messages, nextId,
                    newMessage, seenOnceRevealed, timerHandled >>

\* handleLogin without its three checks
loginOutcomeUnguarded(conns, secretKey) == "ok"

\* handleLogin with the connection limit checked before the identity
loginOutcomeLimitFirst(conns, secretKey) ==
    IF ~validateSecretKey(secretKey) THEN "Invalid credentials"
    ELSE IF getConnectionCount(conns) >= 2 THEN "Room is full"
    ELSE IF hasConnection(conns, getUsername(secretKey)) THEN "Invalid credentials"
    ELSE "ok"

\* what handleLogin decides for a secret, from the registry as it is
loginOutcome(conns, secretKey) ==
    IF ~validateSecretKey(secretKey) THEN "Invalid credentials"
    ELSE IF hasConnection(conns, getUsername(secretKey)) THEN "Invalid credentials"
    ELSE IF getConnectionCount(conns) >= 2 THEN "Room is full"
    ELSE "ok"

handleLogin(s, secretKey) ==
    /\ status[s] = "open"
    /\ LET username == getUsername(secretKey)
           outcome == loginOutcome(activeConnections, secretKey)
       IN  IF outcome = "ok"
           THEN /\ connectedUsers' = [connectedUsers EXCEPT ![s] = username]
                /\ activeConnections' = addConnection(activeConnections, username)
                /\ Handled(s, "login", 0, FALSE, secretKey,
                           ToSocket(s, "login-success", 0, username, "", << >>))
           ELSE /\ UNCHANGED << connectedUsers, activeConnections >>
                /\ Handled(s, "login", 0, FALSE, secretKey,
                           ToSocket(s, "login-error", 0, NoUser, outcome, << >>))
    /\ UNCHANGED << status, chatRoom, messages, nextId, newMessage,
                    seenOnceRevealed, timerHandled >>

\* handleJoin as the code runs it for a socket id, whatever the state of the
\* connection
onJoin(s) ==
    /\ LET user == connectedUsers[s]
       IN  IF user = NoUser
           THEN /\ UNCHANGED chatRoom
                /\ Emit(s, "join", 0,
                        ToSocket(s, "error", 0, NoUser, "Not authenticated", << >>))
           ELSE /\ chatRoom' = chatRoom \cup {s}
                /\ Emit(s, "join", 0,
                        ToSocket(s, "messages-history", 0, NoUser, "",
                                 getMessages(messages))
                        \cup ToOthers(chatRoom \cup {s}, s, "user-joined", 0, user,
                                      "", << >>))
    /\ UNCHANGED << status, connectedUsers, activeConnections, messages, nextId,
                    newMessage, seenOnceRevealed, timerHandled >>

\* socket.on('join'): socket.io dispatches the events of a connected socket
handleJoin(s) ==
    /\ status[s] = "open"
    /\ onJoin(s)

\* the message handleMessage builds (the timestamp is not modelled)
Message(id, user, type, content, seenOnce) ==
    [id |-> id, senderKey |-> user, type |-> type,
     content |-> IF type = "text" THEN sanitizeText(content) ELSE content,
     seen |-> FALSE, seenOnce |-> seenOnce]

\* senderKey taken from the payload when the payload has one
senderKeyFromPayload(user, data) ==
    IF Field(data, "senderKey") = Undefined THEN user
    ELSE Field(data, "senderKey")[1]

\* senderKey: user
senderKey(user, data) == user

\* handleMessage as the code runs it for a socket id, whatever the state of
\* the connection.  data: a MessageData, of which type, content and seenOnce
\* are read; a missing type is "".
onMessage(s, data) ==
    /\ LET user == connectedUsers[s]
           message == Message(nextId, senderKey(user, data), data.type,
                              data.content, data.seenOnce)
       IN  IF user = NoUser
           THEN /\ UNCHANGED << messages, nextId >>
                /\ Emit(s, "message", 0,
                        ToSocket(s, "error", 0, NoUser, "Not authenticated", << >>))
           ELSE IF data.type = "" \/ length(data.content) = 0
           THEN /\ UNCHANGED << messages, nextId >>
                /\ Emit(s, "message", 0,
                        ToSocket(s, "message-error", 0, NoUser,
                                 "Invalid message data", << >>))
           ELSE IF data.type = "image" /\ imageTooLarge(data.content)
           THEN /\ UNCHANGED << messages, nextId >>
                /\ Emit(s, "message", 0,
                        ToSocket(s, "message-error", 0, NoUser,
                                 "Image too large (max 3MB)", << >>))
           ELSE /\ messages' = addMessage(messages, message)
                /\ nextId' = nextId + 1
                /\ HandledFrom(s, "message", message.id,
                           Len(addMessage(messages, message)) <= Len(messages), data,
                           ToSocket(s, "message-ack", message.id, NoUser, "", << >>)
                           \cup ToRoom(chatRoom, "new-message", message.id, NoUser,
                                       "", <<message>>))
    /\ UNCHANGED << status, connectedUsers, chatRoom, activeConnections,
                    seenOnceRevealed, timerHandled >>

\* socket.on('message').  The handler leaves the sender's input box to the
\* client action that sent the event.
handleMessage(s, data) ==
    /\ status[s] = "open"
    /\ onMessage(s, data)

\* handleSeenOnceViewed as the code runs it for a socket id, whatever the
\* state of the connection
onSeenOnceViewed(s, messageId) ==
    /\ LET user == connectedUsers[s]
           result == removeSeenOnceMessage(messages, messageId)
       IN  IF user = NoUser
           THEN /\ UNCHANGED messages
                /\ Handled(s, "seen-once-viewed", messageId, FALSE, "", {})
           ELSE /\ messages' = result.messages
                /\ Handled(s, "seen-once-viewed", messageId, result.removed, "",
                           IF result.removed
                           THEN ToRoom(chatRoom, "message-removed", messageId,
                                       NoUser, "", << >>)
                           ELSE {})
    /\ UNCHANGED << status, connectedUsers, chatRoom, activeConnections, nextId,
                    newMessage >>

\* socket.on('seen-once-viewed'): the body of handleSeenOnceViewed
seenOnceViewed(s, messageId) ==
    /\ status[s] = "open"
    /\ onSeenOnceViewed(s, messageId)

\* a bubble that is no longer shown has no state
Shown(s) == {clientMessages'[s][i].id : i \in 1..Len(clientMessages'[s])}

StillShown(pairs) == {p \in pairs : p[2] \in Shown(p[1])}

\* seen-once-viewed from any socket for any id (a late or repeated event)
handleSeenOnceViewed(s, messageId) ==
    /\ seenOnceViewed(s, messageId)
    /\ seenOnceRevealed' = StillShown(seenOnceRevealed)
    /\ UNCHANGED timerHandled

\* 'photo-viewed' from a socket: setupSocketHandlers registers no listener
\* for it, so socket.io drops the event
handlePhotoViewed(s, messageId) ==
    /\ status[s] = "open"
    /\ Emit(s, "photo-viewed", messageId, {})
    /\ UNCHANGED << status, connectedUsers, chatRoom, activeConnections, messages,
                    nextId, newMessage, seenOnceRevealed, timerHandled >>

\* Map.prototype.delete that leaves the entry
deleteNothing(map, key) == map

\* Map.prototype.delete
delete(map, key) == [map EXCEPT ![key] = NoUser]

\* a 'message-reaction' listener that answers with an error
handleMessageReactionError(s, messageId) ==
    /\ status[s] = "open"
    /\ Emit(s, "message-reaction", messageId,
            ToSocket(s, "error", 0, NoUser, "Message not found", << >>))
    /\ UNCHANGED << status, connectedUsers, chatRoom, activeConnections, messages,
                    nextId, newMessage, seenOnceRevealed, timerHandled >>

\* 'message-reaction' from a socket: setupSocketHandlers registers no
\* listener for it, so socket.io drops the event
handleMessageReaction(s, messageId) ==
    /\ status[s] = "open"
    /\ Emit(s, "message-reaction", messageId, {})
    /\ UNCHANGED << status, connectedUsers, chatRoom, activeConnections, messages,
                    nextId, newMessage, seenOnceRevealed, timerHandled >>

\* handleDisconnect without the clearing of the ledger
messagesKeptAfterDisconnect(conns, msgs) == msgs

\* "Clear messages if no one is connected"
messagesAfterDisconnect(conns, msgs) ==
    IF getConnectionCount(conns) = 0 THEN clearMessages ELSE msgs

\* socket.io has taken the socket out of its rooms when 'disconnect' fires
handleDisconnect(s) ==
    /\ status[s] = "open"
    /\ status' = [status EXCEPT ![s] = "closed"]
    /\ chatRoom' = chatRoom \ {s}
    /\ LET user == connectedUsers[s]
           E == IF user = NoUser THEN {}
                ELSE ToOthers(chatRoom \ {s}, s, "user-left", 0, user, "", << >>)
       IN  /\ IF user = NoUser
              THEN UNCHANGED << activeConnections, connectedUsers, messages >>
              ELSE /\ activeConnections' = removeConnection(activeConnections, user)
                   /\ connectedUsers' = delete(connectedUsers, s)
                   /\ messages' = messagesAfterDisconnect(
                                     removeConnection(activeConnections, user), messages)
           /\ lastEvent' = Call(s, "disconnect", 0, FALSE, "")
           /\ emitted' = E
    \* the client of the closed connection is gone with it
    /\ clientMessages' = [clientMessages EXCEPT ![s] = << >>]
    /\ currentUser' = [currentUser EXCEPT ![s] = NoUser]
    /\ removedCount' = [removedCount EXCEPT ![s] = NoCounts]
    /\ newMessage' = [newMessage EXCEPT ![s] = << >>]
    /\ seenOnceRevealed' = {p \in seenOnceRevealed : p[1] # s}
    /\ timerHandled' = {p \in timerHandled : p[1] # s}
    /\ dropped' = dropped \ {s}
    /\ callState' = [callState EXCEPT ![s] = NoCall]
    /\ UNCHANGED << nextId, sessionVars >>

\* An event of a connection whose disconnect handler has run reaches its
\* handler all the same (a packet that was in flight when the connection
\* closed).
lateJoin(s) ==
    /\ status[s] = "closed"
    /\ onJoin(s)

lateMessage(s, data) ==
    /\ status[s] = "closed"
    /\ onMessage(s, data)
    /\ UNCHANGED newMessage

lateSeenOnceViewed(s, messageId) ==
    /\ status[s] = "closed"
    /\ onSeenOnceViewed(s, messageId)
    /\ seenOnceRevealed' = StillShown(seenOnceRevealed)
    /\ UNCHANGED timerHandled

-----------------------------------------------------------------------------
(* SocketHandler: WebRTC signaling *)

\* A signaling payload: its type (the kind of call, of session description
\* or of state change) and, if the client put one in, a from field.  The
\* other fields of a payload travel with these.
SignalData(type, from) == [type |-> type, from |-> from]

\* WebRTCService.handleOffer: without a peer connection getUserMedia (which
\* rejects without the permission), createPeerConnection; then createAnswer
\* and sendAnswer
onOffer(c) ==
    IF ~c.peerConnection /\ ~c.permission THEN c
    ELSE [c EXCEPT !.peerConnection = TRUE, !.outbox = Append(@, "answer")]

\* ChatRoom's 'call-start' listener.  It compares from with the currentUser
\* of the render that registered it, which is ''.
onCallStart(c, from) ==
    IF from # Some("") THEN [c EXCEPT !.incomingCall = TRUE] ELSE c

\* ChatRoom's 'call-end' listener
onCallEnd(c) ==
    [c EXCEPT !.inCall = FALSE, !.incomingCall = FALSE, !.consented = FALSE]

\* the call state of the client on t after the server handled event of s and
\* emitted E: the event has left the outbox of s, and the listeners of t ran
callStateAfter(t, s, event, E) ==
    LET c == IF t = s /\ callState[t].outbox # << >>
                   /\ Head(callState[t].outbox) = event
             THEN [callState[t] EXCEPT !.outbox = Tail(@)]
             ELSE callState[t]
        got == {e \in E : e.to = t}
    IN  IF \E e \in got : e.event = "call-start"
        THEN onCallStart(c, (CHOOSE e \in got : e.event = "call-start").msgs[1].from)
        ELSE IF \E e \in got : e.event = "call-end" THEN onCallEnd(c)
        ELSE IF \E e \in got : e.event = "offer" THEN onOffer(c)
        ELSE c

\* socket.to('chat-room').emit(event, payload) with the sender in the room
relayToRoom(s, event, data, payload) ==
    /\ lastEvent' = CallWith(s, event, data)
    /\ emitted' = ToRoom(chatRoom, event, 0, NoUser, "", payload)
    /\ callState' = [t \in Sockets |->
                        callStateAfter(t, s, event,
                            ToRoom(chatRoom, event, 0, NoUser, "", payload))]
    /\ UNCHANGED << status, connectedUsers, chatRoom, activeConnections, messages,
                    nextId, removedCount, currentUser, clientMessages, newMessage,
                    seenOnceRevealed, timerHandled, sessionVars, dropped >>

\* socket.to('chat-room').emit(event, payload) on receiving data (<< >> when
\* the event came without)
relay(s, event, data, payload) ==
    /\ lastEvent' = CallWith(s, event, data)
    /\ emitted' = ToOthers(chatRoom, s, event, 0, NoUser, "", payload)
    /\ callState' = [t \in Sockets |->
                        callStateAfter(t, s, event,
                            ToOthers(chatRoom, s, event, 0, NoUser, "", payload))]
    /\ UNCHANGED << status, connectedUsers, chatRoom, activeConnections, messages,
                    nextId, removedCount, currentUser, clientMessages, newMessage,
                    seenOnceRevealed, timerHandled, sessionVars, dropped >>

handleOffer(s, data) ==
    /\ status[s] = "open"
    /\ relay(s, "offer", <<data>>, <<data>>)

handleAnswer(s, data) ==
    /\ status[s] = "open"
    /\ relay(s, "answer", <<data>>, <<data>>)

handleIceCandidate(s, data) ==
    /\ status[s] = "open"
    /\ relay(s, "ice-candidate", <<data>>, <<data>>)

\* the value of from: user, undefined for a socket without a session
fromUser(user) == IF user = NoUser THEN Undefined ELSE Some(user)

\* { ...data, from: user }
callStartPayload(data, user) == [data EXCEPT !.from = fromUser(user)]

handleCallStart(s, data) ==
    /\ status[s] = "open"
    /\ LET user == connectedUsers[s]
       IN  relay(s, "call-start", <<data>>, <<callStartPayload(data, user)>>)

\* { from: user }
callEndPayload(user) == SignalData(Undefined, fromUser(user))

\* the listener passes no data to handleCallEnd
handleCallEnd(s) ==
    /\ status[s] = "open"
    /\ LET user == connectedUsers[s]
       IN  relay(s, "call-end", << >>, <<callEndPayload(user)>>)

handleVideoStateChange(s, data) ==
    /\ status[s] = "open"
    /\ relay(s, "video-state-change", <<data>>, <<data>>)

handleHoldStateChange(s, data) ==
    /\ status[s] = "open"
    /\ relay(s, "hold-state-change", <<data>>, <<data>>)

-----------------------------------------------------------------------------
(* The client: MessageBubble *)

Bubble(s, messageId) ==
    {clientMessages[s][i] : i \in {j \in 1..Len(clientMessages[s]) :
                                        clientMessages[s][j].id = messageId}}

\* the sender's 5 s timer of a shown seen-once bubble fires: onSeenOnceViewed
SenderTimer(s, messageId) ==
    /\ \E m \in Bubble(s, messageId) : m.seenOnce /\ m.senderKey = currentUser[s]
    /\ seenOnceViewed(s, messageId)
    /\ seenOnceRevealed' = StillShown(seenOnceRevealed)
    /\ timerHandled' = timerHandled \cup {<<s, messageId>>}

\* the recipient taps a seen-once bubble: handleRevealSeenOnce
RevealSeenOnce(s, messageId) ==
    /\ \E m \in Bubble(s, messageId) : m.seenOnce /\ m.senderKey # currentUser[s]
    /\ <<s, messageId>> \notin seenOnceRevealed
    /\ seenOnceViewed(s, messageId)
    /\ seenOnceRevealed' = StillShown(seenOnceRevealed \cup {<<s, messageId>>})
    /\ UNCHANGED timerHandled

-----------------------------------------------------------------------------
(* Spec: the server under any order of events from its sockets *)

Text == Str(<<"h", "<">>, 0)

\* a small image sent as a disappearing photo (handleImageUpload)
Photo == MessageData("image", Str(<<"A">>, 0), FALSE, Some(TRUE), Undefined, Undefined)

MessageInputs ==
    { TextData(Text, FALSE),
      TextData(Text, TRUE),
      MessageData("", Text, FALSE, Undefined, Undefined, Undefined),
      TextData(Str(<< >>, 0), FALSE),
      MessageData("image", Str(<<"A">>, 4 * 1024 * 1024), FALSE, Undefined,
                  Undefined, Undefined),
      Photo }

Next ==
    \E s \in Sockets :
        \/ handleConnection(s)
        \/ \E secretKey \in Secrets : handleLogin(s, secretKey)
        \/ handleJoin(s)
        \/ \E data \in MessageInputs :
              nextId <= MaxSent /\ handleMessage(s, data) /\ UNCHANGED newMessage
        \/ \E id \in 1..(nextId - 1) : handleSeenOnceViewed(s, id)
        \/ \E id \in 1..(nextId - 1) : handlePhotoViewed(s, id)
        \/ handleDisconnect(s)

Spec == Init /\ [][Next]_vars

-----------------------------------------------------------------------------
(* SpecStore: MessageStore's ledger under any order of calls *)

StoreCall(call, id, removed) ==
    /\ lastEvent' = Call(0, call, id, removed, "")
    /\ UNCHANGED << status, connectedUsers, chatRoom, activeConnections, emitted,
                    removedCount, currentUser, clientMessages, newMessage,
                    seenOnceRevealed, timerHandled, sessionVars, dropped, callState >>

StoreAddMessage(seenOnce) ==
    /\ nextId <= MaxStored
    /\ seenOnce => nextId <= MaxSeenOnceId
    /\ messages' = addMessage(messages,
                              Message(nextId, "Chaitanya", "text", Text, seenOnce))
    /\ nextId' = nextId + 1
    /\ StoreCall("addMessage", nextId, Len(messages') <= Len(messages))

\* id 0 is the id of no message
StoreRemoveSeenOnceMessage(messageId) ==
    /\ messages' = removeSeenOnceMessage(messages, messageId).messages
    /\ StoreCall("removeSeenOnceMessage", messageId,
                 removeSeenOnceMessage(messages, messageId).removed)
    /\ UNCHANGED nextId

StoreClearMessages ==
    /\ messages' = clearMessages
    /\ StoreCall("clearMessages", 0, FALSE)
    /\ UNCHANGED nextId

NextStore ==
    \/ \E seenOnce \in BOOLEAN : StoreAddMessage(seenOnce)
    \/ \E id \in 0..(nextId - 1) : StoreRemoveSeenOnceMessage(id)
    \/ StoreClearMessages

SpecStore == Init /\ [][NextStore]_vars

-----------------------------------------------------------------------------
(* SpecChat: two ChatRoom clients, one per secret, that stay connected.    *)
(* Each logs in when its socket connects and joins on login-success; the   *)
(* first one, once joined, sends text messages; bubbles' timers fire and   *)
(* recipients tap seen-once bubbles.                                       *)

ChatSockets == {1, 2}

ChatSender == 1

SecretOf(s) == IF s = ChatSender THEN "Chaithu143" ELSE "Geethu143"

\* socketService.connect()
ClientConnect(s) == handleConnection(s)

\* ChatRoom's 'connect' listener: login(secretKey)
ClientLogin(s) ==
    /\ currentUser[s] = NoUser
    /\ handleLogin(s, SecretOf(s))

\* ChatRoom's 'login-success' listener: join()
ClientJoin(s) ==
    /\ currentUser[s] # NoUser
    /\ s \notin chatRoom
    /\ handleJoin(s)

\* handleSendMessage and handleSendSeenOnce
ClientSend(s, seenOnce) ==
    /\ s \in chatRoom
    /\ nextId <= MaxChat
    /\ seenOnce => nextId <= MaxSeenOnceId
    /\ handleMessage(s, TextData(Text, seenOnce))
    /\ UNCHANGED newMessage

NextChat ==
    \/ \E s \in ChatSockets : ClientConnect(s)
    \/ \E s \in ChatSockets : ClientLogin(s)
    \/ \E s \in ChatSockets : ClientJoin(s)
    \/ \E seenOnce \in BOOLEAN : ClientSend(ChatSender, seenOnce)
    \/ \E s \in ChatSockets, id \in 1..(nextId - 1) : SenderTimer(s, id)
    \/ \E s \in ChatSockets, id \in 1..(nextId - 1) : RevealSeenOnce(s, id)

SpecChat == Init /\ [][NextChat]_vars

-----------------------------------------------------------------------------------------------------------------------------------------------------
(* SpecMessage: one ChatRoom client, with a text typed in its input box,   *)
(* that logs in, joins and sends what its forms can build: the typed text, *)
(* an uploaded image, a recorded voice note, a reply; and payloads that    *)
(* lack a field.                                                           *)

Alphabet == {"a", "<", ">", "\"", "'", "/"}

\* the strings of at most MaxLen characters
Texts == UNION {[1..n -> Alphabet] : n \in 0..MaxLen}

InitMessage ==
    /\ Constructed
    /\ \E chars \in Texts :
          newMessage = [s \in Sockets |-> IF s = ChatSender THEN chars ELSE << >>]

\* a base64 payload of len characters
Payload(len) == Str(<<"A">>, len - 1)

\* the longest payload whose computed size is within the limit
LongestPayload == (IMAGE_LIMIT * 4) \div 3

PayloadLengths == {1, LongestPayload, LongestPayload + 1}

\* handleImageUpload, plain or disappearing
ImageInputs ==
    {MessageData("image", Payload(len), FALSE, disappearingPhoto, Undefined, Undefined) :
        len \in PayloadLengths, disappearingPhoto \in {Some(FALSE), Some(TRUE)}}

\* the recorder's onstop; the note lasted 3 s
VoiceInputs ==
    {MessageData("voice", Payload(len), FALSE, Undefined, Undefined, Some(3)) :
        len \in PayloadLengths}

\* handleSendMessage while replying to a message shown
ReplyInputs(ids) ==
    {MessageData("text", Text, FALSE, Undefined, Some(id), Undefined) : id \in ids}

\* payloads without a type, without content
MalformedInputs ==
    { MessageData("", Text, FALSE, Undefined, Undefined, Undefined),
      TextData(Str(<< >>, 0), FALSE) }

\* what the input box of s holds, as handleSendMessage (seenOnce false) or
\* handleSendSeenOnce (seenOnce true) would send it
TypedInputs(s) == {TextData(Str(newMessage[s], 0), seenOnce) : seenOnce \in BOOLEAN}

Inputs(s) ==
    TypedInputs(s) \cup ReplyInputs(Ids(clientMessages[s])) \cup ImageInputs
        \cup VoiceInputs \cup MalformedInputs

\* handleSendMessage / handleSendSeenOnce of a joined client: nothing is sent
\* for an empty box, and the box is emptied
ClientSendTyped(s, seenOnce) ==
    /\ s \in chatRoom
    /\ nextId <= MaxInput
    /\ newMessage[s] # << >>
    /\ handleMessage(s, TextData(Str(newMessage[s], 0), seenOnce))
    /\ newMessage' = [newMessage EXCEPT ![s] = << >>]

\* SocketService.sendMessage of a joined client with any other payload
ClientSendData(s, data) ==
    /\ s \in chatRoom
    /\ nextId <= MaxInput
    /\ handleMessage(s, data)
    /\ UNCHANGED newMessage

\* the cleanup of ChatRoom's effect: socketService.disconnect()
ClientDisconnect(s) == handleDisconnect(s)

NextMessage ==
    \/ ClientConnect(ChatSender)
    \/ ClientLogin(ChatSender)
    \/ ClientJoin(ChatSender)
    \/ \E seenOnce \in BOOLEAN : ClientSendTyped(ChatSender, seenOnce)
    \/ \E data \in Inputs(ChatSender) \ TypedInputs(ChatSender) :
            ClientSendData(ChatSender, data)
    \/ ClientDisconnect(ChatSender)

SpecMessage == InitMessage /\ [][NextMessage]_vars

-----------------------------------------------------------------------------
(* SpecReact: two clients that chat and react to the first messages *)

\* msg.reactions || []
reactionsOf(msg) == IF "reactions" \in DOMAIN msg THEN msg.reactions ELSE << >>

\* { ...msg, reactions: [...(msg.reactions || []), { emoji, user }] }
withReaction(msg, emoji, user) ==
    [f \in DOMAIN msg \cup {"reactions"} |->
        IF f = "reactions"
        THEN Append(reactionsOf(msg), [emoji |-> emoji, user |-> user])
        ELSE msg[f]]

\* ChatRoom's 'message-reaction' listener: the new value of messages
messageReactionListener(msgs, messageId, emoji, user) ==
    [i \in 1..Len(msgs) |->
        IF msgs[i].id = messageId THEN withReaction(msgs[i], emoji, user)
        ELSE msgs[i]]

\* a double tap on a shown bubble: handleReact -> reactToMessage
ClientReact(s, messageId) ==
    /\ Bubble(s, messageId) # {}
    /\ handleMessageReaction(s, messageId)

NextReact ==
    \/ \E s \in ChatSockets : ClientConnect(s)
    \/ \E s \in ChatSockets : ClientLogin(s)
    \/ \E s \in ChatSockets : ClientJoin(s)
    \/ \E seenOnce \in BOOLEAN : ClientSend(ChatSender, seenOnce)
    \/ \E s \in ChatSockets, id \in 1..(nextId - 1) : RevealSeenOnce(s, id)
    \/ \E s \in ChatSockets, id \in 1..MaxReactId : ClientReact(s, id)

SpecReact == Init /\ [][NextReact]_vars

-----------------------------------------------------------------------------
(* SpecToken: AuthService's tokens.  A token is generated at a login, kept *)
(* in the browser's localStorage, possibly altered there, and presented to *)
(* the session endpoint when App loads.                                    *)

JWT_SECRET == "your-super-secret-jwt-key-change-in-production"

\* 24 hours, in seconds
DAY == 24 * 60 * 60

\* Date.now() / 1000 and exp * 1000: milliseconds in a second
SECOND == 1000

DAY_MS == DAY * SECOND

\* JSON.stringify and JSON.parse
stringify(obj) == [json |-> obj]

parse(str) == str.json

\* a string as base64url text, and back
base64UrlEncode(str) == [base64url |-> str]

base64UrlDecode(encoded) == encoded.base64url

\* HMAC-SHA256 of data under secret: equal for equal data and secret only
sign(data, secret) == [hmac |-> data, key |-> secret]

\* encodedHeader + '.' + encodedPayload (base64url text has no '.')
signedPart(encodedHeader, encodedPayload) == <<encodedHeader, encodedPayload>>

\* the token of a valid secretKey generated at time t, as its three parts
generateToken(secretKey, t) ==
    LET username == getUsername(secretKey)
        header == [alg |-> "HS256", typ |-> "JWT"]
        payload == [secretKey |-> secretKey, username |-> username,
                    iat |-> t \div SECOND, exp |-> (t \div SECOND) + DAY]
        encodedHeader == base64UrlEncode(stringify(header))
        encodedPayload == base64UrlEncode(stringify(payload))
        signature == sign(signedPart(encodedHeader, encodedPayload), JWT_SECRET)
    IN  <<encodedHeader, encodedPayload, signature>>

\* what verifyToken gives: the payload, or the error it throws
Verified(payload) == [valid |-> TRUE, payload |-> <<payload>>]

Rejected == [valid |-> FALSE, payload |-> << >>]

\* verifyToken without the comparison of the signature
verifyTokenUnsigned(token, t) ==
    IF Len(token) # 3 THEN Rejected
    ELSE LET payload == parse(base64UrlDecode(token[2]))
         IN  IF payload.exp # 0 /\ t >= payload.exp * SECOND THEN Rejected
             ELSE IF ~validateSecretKey(payload.secretKey) THEN Rejected
             ELSE Verified(payload)

\* verifyToken without the expiry check
verifyTokenUnexpiring(token, t) ==
    IF Len(token) # 3 THEN Rejected
    ELSE LET encodedHeader == token[1]
             encodedPayload == token[2]
             signature == token[3]
             expectedSignature ==
                 sign(signedPart(encodedHeader, encodedPayload), JWT_SECRET)
         IN  IF signature # expectedSignature THEN Rejected
             ELSE LET payload == parse(base64UrlDecode(encodedPayload))
                  IN  IF ~validateSecretKey(payload.secretKey) THEN Rejected
                      ELSE Verified(payload)

\* token: the parts token.split('.') gives; t: Date.now()
verifyToken(token, t) ==
    IF Len(token) # 3 THEN Rejected
    ELSE LET encodedHeader == token[1]
             encodedPayload == token[2]
             signature == token[3]
             expectedSignature ==
                 sign(signedPart(encodedHeader, encodedPayload), JWT_SECRET)
         IN  IF signature # expectedSignature THEN Rejected
             ELSE LET payload == parse(base64UrlDecode(encodedPayload))
                  IN  IF payload.exp # 0 /\ t >= payload.exp * SECOND THEN Rejected
                      ELSE IF ~validateSecretKey(payload.secretKey) THEN Rejected
                      ELSE Verified(payload)

\* a payload re-encoded after a change
withPayload(token, payload) ==
    [token EXCEPT ![2] = base64UrlEncode(stringify(payload))]

\* What someone without JWT_SECRET can make of a token: another header,
\* another identity, a later or no expiry, a signature under a guessed
\* secret (over the old or over a changed payload), no signature, a part
\* more or less.
Alterations(token) ==
    LET payload == parse(base64UrlDecode(token[2]))
        other == [payload EXCEPT !.secretKey = "Geethu143", !.username = "Geetha"]
        chaitanya == [payload EXCEPT !.secretKey = "Chaithu143",
                                     !.username = "Chaitanya"]
        later == [payload EXCEPT !.exp = payload.exp + DAY]
        never == [payload EXCEPT !.exp = 0]
        resigned(tk) ==
            [tk EXCEPT ![3] = sign(signedPart(tk[1], tk[2]), "guess")]
    IN  { [token EXCEPT ![1] = base64UrlEncode(stringify(
                                   [alg |-> "none", typ |-> "JWT"]))],
          withPayload(token, other),
          withPayload(token, chaitanya),
          withPayload(token, later),
          withPayload(token, never),
          resigned(token),
          resigned(withPayload(token, later)),
          [token EXCEPT ![3] = sign(<< >>, "")],
          SubSeq(token, 1, 2),
          token \o <<token[3]>> } \ {token}

\* the times at which tokens are generated
StartTimes == {0, 1, SECOND - 1, SECOND}

\* the times the clock is read at: the start times, and 24 hours after
\* them to the millisecond and to the second
Instants ==
    StartTimes \cup
    {s + o : s \in StartTimes,
             o \in {DAY_MS - SECOND, DAY_MS - SECOND + 1, DAY_MS - 1, DAY_MS,
                    DAY_MS + 1}}

\* time passes
Tick(t) ==
    /\ t > now
    /\ now' = t
    /\ UNCHANGED << status, connectedUsers, chatRoom, activeConnections, messages,
                    nextId, lastEvent, emitted, removedCount, currentUser,
                    clientMessages, newMessage, seenOnceRevealed, timerHandled,
                    localStorage, issued, app, dropped, callState >>

\* a step of the browser or of the token service: the chat server is not
\* involved
SessionCall(event, key, data) ==
    /\ lastEvent' = [Call(0, event, 0, FALSE, key) EXCEPT !.data = data]
    /\ emitted' = {}
    /\ UNCHANGED << status, connectedUsers, chatRoom, activeConnections, messages,
                    nextId, removedCount, currentUser, clientMessages, newMessage,
                    seenOnceRevealed, timerHandled, dropped, callState >>

\* generateToken(secretKey) at a login; the client keeps the token
\* (AuthService.setToken).  An invalid secretKey makes generateToken throw.
TokenGenerated(secretKey) ==
    /\ now \in StartTimes
    /\ IF validateSecretKey(secretKey)
       THEN /\ localStorage' = <<generateToken(secretKey, now)>>
            /\ issued' = <<[at |-> now, secretKey |-> secretKey]>>
       ELSE UNCHANGED << localStorage, issued >>
    /\ SessionCall("generateToken", secretKey, << >>)
    /\ UNCHANGED << now, app >>

\* the token that was generated last
Genuine == generateToken(issued[1].secretKey, issued[1].at)

\* what the token that was generated last can be altered to
AlteredTokens == IF issued = << >> THEN {} ELSE Alterations(Genuine)

\* the stored token is replaced by an altered one
TokenAltered(token) ==
    /\ issued # << >>
    /\ localStorage = <<Genuine>>
    /\ token \in AlteredTokens
    /\ localStorage' = <<token>>
    /\ SessionCall("alter", "", << >>)
    /\ UNCHANGED << now, issued, app >>

\* the page is loaded again: App is mounted anew
Reload ==
    /\ ~app.loading
    /\ app' = AppStart
    /\ SessionCall("reload", "", << >>)
    /\ UNCHANGED << now, localStorage, issued >>

\* App's checkSession: AuthService.validateSession posts the stored token to
\* the session endpoint, which answers 200 { valid: true, user } when
\* verifyToken returns and 401 when it throws.
checkSession ==
    /\ app.loading
    /\ IF localStorage = << >>
       THEN /\ app' = [app EXCEPT !.loading = FALSE]
            /\ SessionCall("checkSession", "", << >>)
            /\ UNCHANGED localStorage
       ELSE LET token == localStorage[1]
                decoded == verifyToken(token, now)
            IN  /\ IF decoded.valid
                   THEN /\ app' = [loading |-> FALSE, isAuthenticated |-> TRUE,
                                    currentUser |-> decoded.payload[1].username]
                        /\ UNCHANGED localStorage
                   ELSE /\ app' = [app EXCEPT !.loading = FALSE]
                        /\ localStorage' = << >>
                /\ SessionCall("checkSession", "", <<token>>)
    /\ UNCHANGED << now, issued >>

NextToken ==
    \/ \E t \in Instants : Tick(t)
    \/ \E secretKey \in Secrets : TokenGenerated(secretKey)
    \/ \E token \in AlteredTokens : TokenAltered(token)
    \/ Reload
    \/ checkSession

SpecToken == Init /\ [][NextToken]_vars

-----------------------------------------------------------------------------
(* SpecBrowser: one participant's browser.  App logs in from the login form *)
(* or from a stored token, ChatRoom connects, logs in and joins; the       *)
(* transport can drop, socket.io-client then connects again, and the       *)
(* server handles the old socket's disconnect when it notices.             *)

\* App.handleLogin(secretKey), called by the login form
AppLogin(secretKey) ==
    /\ ~app.loading
    /\ ~app.isAuthenticated
    /\ app' = [app EXCEPT !.isAuthenticated = TRUE, !.currentUser = secretKey]
    /\ SessionCall("handleLogin", secretKey, << >>)
    /\ UNCHANGED << now, localStorage, issued >>

\* SocketService.connect(), and socket.io-client connecting again after the
\* transport dropped
BrowserConnect(s) ==
    /\ app.isAuthenticated
    /\ \A t \in Sockets : status[t] # "open" \/ t \in dropped
    /\ handleConnection(s)

\* ChatRoom's 'connect' listener: login(secretKey), secretKey being the
\* currentUser prop App passes
BrowserLogin(s) ==
    /\ app.isAuthenticated
    /\ status[s] = "open"
    /\ s \notin dropped
    /\ currentUser[s] = NoUser
    /\ handleLogin(s, app.currentUser)

\* ChatRoom's 'login-success' listener: join()
BrowserJoin(s) ==
    /\ status[s] = "open"
    /\ s \notin dropped
    /\ ClientJoin(s)

\* the connection is lost on the client's side
TransportDrop(s) ==
    /\ status[s] = "open"
    /\ s \notin dropped
    /\ dropped' = dropped \cup {s}
    /\ lastEvent' = Call(s, "transport-drop", 0, FALSE, "")
    /\ emitted' = {}
    /\ UNCHANGED << status, connectedUsers, chatRoom, activeConnections, messages,
                    nextId, removedCount, currentUser, clientMessages, newMessage,
                    seenOnceRevealed, timerHandled, sessionVars, callState >>

NextBrowser ==
    \/ \E secretKey \in VALID_KEYS : TokenGenerated(secretKey)
    \/ checkSession
    \/ \E secretKey \in VALID_KEYS : AppLogin(secretKey)
    \/ \E s \in Sockets : BrowserConnect(s)
    \/ \E s \in Sockets : BrowserLogin(s)
    \/ \E s \in Sockets : BrowserJoin(s)
    \/ \E s \in Sockets : TransportDrop(s)
    \/ \E s \in dropped : handleDisconnect(s)

SpecBrowser == Init /\ [][NextBrowser]_vars

-----------------------------------------------------------------------------
(* SpecForge: two participants, each with its own secret, that send text   *)
(* payloads naming a sender of their choice.                               *)

\* a payload with the fields a client can add to name a sender
WithSender(data, user) == [senderKey |-> Some(user), user |-> user] @@ data

ForgedInputs ==
    {TextData(Text, FALSE)}
        \cup {WithSender(TextData(Text, FALSE), getUsername(k)) : k \in VALID_KEYS}

\* socket.emit('message', data) from a client that is connected
ForgedSend(s, data) ==
    /\ nextId <= MaxForged
    /\ handleMessage(s, data)
    /\ UNCHANGED newMessage

NextForge ==
    \/ \E s \in ChatSockets : ClientConnect(s)
    \/ \E s \in ChatSockets : ClientLogin(s)
    \/ \E s \in ChatSockets : ClientJoin(s)
    \/ \E s \in ChatSockets, data \in ForgedInputs : ForgedSend(s, data)
    \/ \E s \in ChatSockets : ClientDisconnect(s)

SpecForge == Init /\ [][NextForge]_vars

-----------------------------------------------------------------------------
(* SpecCall: two joined clients and their call buttons.  What a client     *)
(* emits waits in its outbox until the server handles it.                  *)

\* a step of the client on s alone
CallStep(s, event, c) ==
    /\ status[s] = "open"
    /\ Len(c.outbox) <= MaxOutbox
    /\ callState' = [callState EXCEPT ![s] = c]
    /\ lastEvent' = Call(s, event, 0, FALSE, "")
    /\ emitted' = {}
    /\ UNCHANGED << status, connectedUsers, chatRoom, activeConnections, messages,
                    nextId, removedCount, currentUser, clientMessages, newMessage,
                    seenOnceRevealed, timerHandled, sessionVars, dropped >>

\* the user lets the site use camera and microphone; the browser keeps it
BrowserPermission(s) ==
    /\ ~callState[s].permission
    /\ CallStep(s, "permission", [callState[s] EXCEPT !.permission = TRUE])

\* the call buttons of the chat view, shown while not in a call
handleStartCall(s) ==
    /\ s \in chatRoom
    /\ ~callState[s].inCall
    /\ CallStep(s, "handleStartCall",
                [callState[s] EXCEPT !.inCall = TRUE, !.consented = TRUE,
                                     !.outbox = Append(@, "call-start")])

\* WebRTCService.startCall, which the call view (shown while inCall) runs
startCall(s) ==
    /\ callState[s].inCall
    /\ ~callState[s].peerConnection
    /\ callState[s].permission
    /\ CallStep(s, "startCall",
                [callState[s] EXCEPT !.peerConnection = TRUE,
                                     !.outbox = Append(@, "offer")])

handleAcceptCall(s) ==
    /\ ~callState[s].inCall
    /\ callState[s].incomingCall
    /\ CallStep(s, "handleAcceptCall",
                [callState[s] EXCEPT !.inCall = TRUE, !.incomingCall = FALSE,
                                     !.consented = TRUE])

handleRejectCall(s) ==
    /\ ~callState[s].inCall
    /\ callState[s].incomingCall
    /\ CallStep(s, "handleRejectCall",
                [callState[s] EXCEPT !.incomingCall = FALSE,
                                     !.outbox = Append(@, "call-end")])

\* handleEndCall: socketService.endCall(), webrtcService.endCall()
handleEndCall(s) ==
    /\ callState[s].inCall
    /\ CallStep(s, "handleEndCall",
                [callState[s] EXCEPT !.inCall = FALSE, !.consented = FALSE,
                                     !.peerConnection = FALSE,
                                     !.outbox = Append(@, "call-end")])

\* the server handles the event that has waited longest in the outbox of s,
\* with what the client's services put in it
Arrives(s, event) ==
    /\ callState[s].outbox # << >>
    /\ event = Head(callState[s].outbox)
    /\ \A t \in Sockets : Len(callState[t].outbox) < MaxOutbox
    /\ \/ event = "call-start" /\ handleCallStart(s, SignalData(Some("video"), Undefined))
       \/ event = "offer" /\ handleOffer(s, SignalData(Some("offer"), Undefined))
       \/ event = "answer" /\ handleAnswer(s, SignalData(Some("answer"), Undefined))
       \/ event = "call-end" /\ handleCallEnd(s)

NextCall ==
    \/ \E s \in ChatSockets : ClientConnect(s)
    \/ \E s \in ChatSockets : ClientLogin(s)
    \/ \E s \in ChatSockets : ClientJoin(s)
    \/ \E s \in ChatSockets : BrowserPermission(s)
    \/ \E s \in ChatSockets : handleStartCall(s)
    \/ \E s \in ChatSockets : startCall(s)
    \/ \E s \in ChatSockets : handleAcceptCall(s)
    \/ \E s \in ChatSockets : handleRejectCall(s)
    \/ \E s \in ChatSockets : handleEndCall(s)
    \/ \E s \in ChatSockets, event \in {"call-start", "offer", "answer", "call-end"} :
            Arrives(s, event)

SpecCall == Init /\ [][NextCall]_vars

-----------------------------------------------------------------------------
(* SpecLate: sessions whose last events are handled after their disconnect *)

\* a seen-once text, which a seen-once-viewed of a participant would remove
LateInputs == {TextData(Text, TRUE)}

NextLate ==
    \E s \in Sockets :
        \/ handleConnection(s)
        \/ \E secretKey \in VALID_KEYS : handleLogin(s, secretKey)
        \/ handleJoin(s)
        \/ \E data \in LateInputs :
              nextId <= MaxLate /\ handleMessage(s, data) /\ UNCHANGED newMessage
        \/ handleDisconnect(s)
        \/ lateJoin(s)
        \/ \E data \in LateInputs : lateMessage(s, data)
        \/ \E id \in 1..(nextId - 1) : lateSeenOnceViewed(s, id)

SpecLate == Init /\ [][NextLate]_vars

-----------------------------------------------------------------------------
(* SpecSignal: logins, joins and signaling events in any order *)

\* events the server passes on as they are
RelayedEvents ==
    {"offer", "answer", "ice-candidate", "video-state-change", "hold-state-change"}

SignalEvents == RelayedEvents \cup {"call-start", "call-end"}

\* what startCall sends ({ type }), and payloads that carry a from of their
\* own
SignalInputs ==
    { SignalData(Some("video"), Undefined),
      SignalData(Some("video"), Some("Chaitanya")),
      SignalData(Some("voice"), Some("Geetha")) }

NextSignal ==
    \E s \in Sockets :
        \/ handleConnection(s)
        \/ \E secretKey \in VALID_KEYS : handleLogin(s, secretKey)
        \/ handleJoin(s)
        \/ \E data \in SignalInputs : handleOffer(s, data)
        \/ \E data \in SignalInputs : handleAnswer(s, data)
        \/ \E data \in SignalInputs : handleIceCandidate(s, data)
        \/ \E data \in SignalInputs : handleCallStart(s, data)
        \/ handleCallEnd(s)
        \/ \E data \in SignalInputs : handleVideoStateChange(s, data)
        \/ \E data \in SignalInputs : handleHoldStateChange(s, data)
        \/ handleDisconnect(s)

SpecSignal == Init /\ [][NextSignal]_vars

-----------------------------------------------------------------------------
(* Properties *)

\* C1: after any interleaving of login and disconnect events the presence
\* registry never holds more than 2 identities.
C1_RegistryAtMostTwo == Cardinality(activeConnections) <= 2

\* two identities are registered and a further login has just been refused
C1_Witness ==
    /\ Cardinality(activeConnections) = 2
    /\ lastEvent.event = "login"
    /\ \E e \in emitted : e.event = "login-error"

\* C2: at most one connected socket is bound to a given identity; a login
\* succeeds for an identity only while no other socket holds it.
C2_OneSocketPerIdentity ==
    /\ \A s, t \in Sockets :
          (connectedUsers[s] # NoUser /\ connectedUsers[s] = connectedUsers[t])
              => s = t
    /\ \A e \in emitted :
          e.event = "login-success"
              => \A t \in Sockets \ {e.to} : connectedUsers[t] # e.user

\* a socket holds the identity of a secret and another open socket has just
\* been refused a login with the same secret
C2_Witness ==
    /\ lastEvent.event = "login"
    /\ lastEvent.key \in VALID_KEYS
    /\ \E e \in emitted : e.event = "login-error" /\ e.to = lastEvent.socket
    /\ \E s \in Sockets \ {lastEvent.socket} :
          /\ status[s] = "open"
          /\ connectedUsers[s] = getUsername(lastEvent.key)

\* C3: after any sequence of addMessage, removeSeenOnceMessage and
\* clearMessages calls the ledger holds at most MAX_MESSAGES messages.
C3_LedgerBounded == Len(messages) <= MAX_MESSAGES

\* addMessage was called on a full ledger
C3_Witness ==
    /\ lastEvent.event = "addMessage"
    /\ lastEvent.removed
    /\ Len(messages) = MAX_MESSAGES

\* C4: addMessage on a full ledger evicts exactly one message, the one
\* inserted earliest among those present, whatever its seenOnce flag; the new
\* message is at the head and the others keep their relative order.
C4_EvictsOldest ==
    [][ (lastEvent'.event = "addMessage" /\ Len(messages) = MAX_MESSAGES)
          => LET before == messages
                 after == messages'
                 evicted == Range(before) \ Range(after)
             IN  /\ Cardinality(evicted) = 1
                 /\ \A m \in evicted : \A k \in Range(before) : m.id <= k.id
                 /\ Head(after).id = lastEvent'.id
                 /\ Head(after) \notin Range(before)
                 /\ Tail(after) = SelectSeq(before, LAMBDA m : m \notin evicted)
      ]_vars

\* the ledger held messages 1..MAX_MESSAGES and the next addMessage evicted
\* message 1
C4_Witness ==
    /\ lastEvent.event = "addMessage"
    /\ lastEvent.removed
    /\ Len(messages) = MAX_MESSAGES
    /\ Ids(messages) = 2..(MAX_MESSAGES + 1)

\* C5: the messages-history delivered on join lists the messages oldest
\* first (ids are handed out in the order of sending).
C5_HistoryChronological ==
    \A e \in emitted :
        e.event = "messages-history"
            => \A i, j \in 1..Len(e.msgs) : i < j => e.msgs[i].id < e.msgs[j].id

\* C6: once every connection that had logged in has disconnected, the ledger
\* has been cleared.
C6_ClearedWhenAllGone ==
    (\A s \in Sockets : connectedUsers[s] = NoUser) => messages = << >>

\* C7: if the presence registry is empty then the ledger is empty.
C7_EmptyRegistryEmptyLedger == activeConnections = {} => messages = << >>

\* a message was accepted and the last registered identity has then left
C7_Witness ==
    /\ lastEvent.event = "disconnect"
    /\ activeConnections = {}
    /\ nextId > 1

\* C8: for a seen-once message, whatever the order of the seen-once-viewed
\* events for its id, every joined connection receives exactly one
\* message-removed for it when it is removed, and every later
\* seen-once-viewed for it is a no-op with no broadcast.
C8_RemovedOncePerConnection ==
    /\ \A s \in Sockets : \A id \in DOMAIN removedCount[s] : removedCount[s][id] <= 1
    /\ lastEvent.event = "seen-once-viewed" =>
          IF lastEvent.removed
          THEN /\ emitted = {Ev(s, "message-removed", lastEvent.id, NoUser, "", << >>)
                                : s \in chatRoom}
               /\ \A s \in chatRoom : Count(removedCount[s], lastEvent.id) = 1
               /\ lastEvent.id \notin Ids(messages)
          ELSE emitted = {}

\* both participants are joined, each has received one message-removed for
\* the id, and a further seen-once-viewed for it has just been handled
C8_Witness ==
    /\ lastEvent.event = "seen-once-viewed"
    /\ ~lastEvent.removed
    /\ connectedUsers[lastEvent.socket] # NoUser
    /\ Cardinality(chatRoom) = 2
    /\ \A s \in chatRoom : Count(removedCount[s], lastEvent.id) = 1

\* C9: removeSeenOnceMessage(id) removes the message with that id only if its
\* seenOnce flag is true and returns whether it removed it; a second call
\* with the same id returns false and changes nothing; for a missing id or a
\* message that is not seen-once the ledger is unchanged.
C9_RemoveSeenOnce ==
    \A id \in 0..nextId :
        LET first == removeSeenOnceMessage(messages, id)
            second == removeSeenOnceMessage(first.messages, id)
            target == {m \in Range(messages) : m.id = id}
        IN  /\ first.removed = (\E m \in target : m.seenOnce)
            /\ first.removed =>
                  first.messages = SelectSeq(messages, LAMBDA m : m.id # id)
            /\ ~first.removed => first.messages = messages
            /\ ~second.removed
            /\ second.messages = first.messages

\* a seen-once message was removed while an older message stayed, and the
\* call was then repeated with the same id
C9_Witness ==
    /\ lastEvent.event = "removeSeenOnceMessage"
    /\ ~lastEvent.removed
    /\ lastEvent.id \notin Ids(messages)
    /\ \E older, newer \in Ids(messages) : older < lastEvent.id /\ lastEvent.id < newer

\* C10: a seen-once message whose sender stays connected and joined is
\* removed with a message-removed broadcast once the sender's timer has
\* fired and its seen-once-viewed has been handled.
C10_TimerRemoves ==
    \A p \in timerHandled :
        (p[1] \in chatRoom /\ connectedUsers[p[1]] # NoUser)
            => Count(removedCount[p[1]], p[2]) >= 1

\* C11: when the recipient opens a seen-once message, the message stays in
\* the ledger and no message-removed is broadcast at the moment the
\* recipient's seen-once-viewed is handled (the removal waits for a timer of
\* the server).
C11_RevealKeepsMessage ==
    (lastEvent.event = "seen-once-viewed" /\ lastEvent.socket # ChatSender)
        => (~lastEvent.removed /\ emitted = {})

\* C12: when the recipient, joined, opens a disappearing photo of the ledger
\* (photo-viewed with its id), the server records the view: the message
\* carries viewedAt, or has started its way out of the ledger.
C12_PhotoViewRecorded ==
    \A m \in Range(messages) :
        ( /\ lastEvent.event = "photo-viewed"
          /\ lastEvent.id = m.id
          /\ m.type = "image"
          /\ lastEvent.socket \in chatRoom
          /\ connectedUsers[lastEvent.socket] \notin {NoUser, m.senderKey} )
            => Field(m, "viewedAt") # Undefined

\* C13: a seen-once-viewed for an id that is no longer in the ledger (the
\* message was evicted by the FIFO limit) changes nothing and broadcasts
\* nothing, and no connection ever receives message-removed twice for an id.
C13_NoBroadcastAfterEviction ==
    [][ /\ (lastEvent'.event = "seen-once-viewed" /\ lastEvent'.id \notin Ids(messages))
            => (emitted' = {} /\ messages' = messages)
        /\ \A s \in Sockets : \A id \in DOMAIN removedCount'[s] :
               removedCount'[s][id] <= 1
      ]_vars

\* the sender's timer of a seen-once message fired after the message had been
\* evicted by later messages: nothing was broadcast for it, then or before
C13_Witness ==
    /\ lastEvent.event = "seen-once-viewed"
    /\ lastEvent.socket = ChatSender
    /\ <<ChatSender, lastEvent.id>> \in timerHandled
    /\ nextId > MAX_MESSAGES + 1
    /\ lastEvent.id \notin Ids(messages)
    /\ \A s \in chatRoom : Count(removedCount[s], lastEvent.id) = 0
    /\ emitted = {}

\* C14: the message ids a joined client displays are the ids of the ledger
\* (every event is delivered within the step that emits it).
C14_ClientsConverge ==
    \A s \in chatRoom : Ids(clientMessages[s]) = Ids(messages)

\* C15: for every valid message from an authenticated connection the message
\* is appended to the ledger, the sender receives exactly one message-ack
\* with the stored id, and new-message with the stored message is delivered
\* to the joined connections and to the sender.
C15_AckAndBroadcast ==
    (lastEvent.event = "message" /\ lastEvent.id # 0) =>
        /\ messages # << >>
        /\ Head(messages).id = lastEvent.id
        /\ {e \in emitted : e.event = "message-ack"}
              = ToSocket(lastEvent.socket, "message-ack", lastEvent.id, NoUser, "", << >>)
        /\ \A t \in chatRoom \cup {lastEvent.socket} :
              Ev(t, "new-message", lastEvent.id, NoUser, "", <<Head(messages)>>)
                  \in emitted

\* C16: a message event that fails validation (no type, no content, or an
\* image or voice content over the size limit) leaves the ledger unchanged,
\* is answered with message-error to the sender and with nothing else, and
\* leaves the connection open and authenticated.
C16_ValidationFailureDropsMessage ==
    [][ \A data \in Inputs(ChatSender) :
          ( /\ \/ data.type = ""
               \/ length(data.content) = 0
               \/ /\ data.type \in {"image", "voice"}
                  /\ length(data.content) * 3 > IMAGE_LIMIT * 4
            /\ handleMessage(ChatSender, data) )
              => /\ messages' = messages
                 /\ emitted' # {}
                 /\ \A e \in emitted' : e.event = "message-error" /\ e.to = ChatSender
                 /\ connectedUsers' = connectedUsers
                 /\ status' = status
      ]_vars

\* C17: an image or voice message is accepted if and only if its computed
\* size, content length * 3 / 4, is at most 3 * 1024 * 1024; over the limit
\* it is answered with message-error and not stored.
C17_SizeLimit ==
    [][ \A data \in ImageInputs \cup VoiceInputs :
          handleMessage(ChatSender, data)
              => IF length(data.content) * 3 <= IMAGE_LIMIT * 4
                 THEN /\ messages' # messages
                      /\ Head(messages').content = data.content
                      /\ Head(messages').type = data.type
                 ELSE /\ messages' = messages
                      /\ \E e \in emitted' : e.event = "message-error"
      ]_vars

\* C18: the content of a text message in the ledger or in a new-message
\* holds none of the characters < > " ' /.
C18_NoMarkupStored ==
    \A m \in Range(messages)
              \cup UNION {Range(e.msgs) : e \in {b \in emitted : b.event = "new-message"}} :
        m.type = "text"
            => \A i \in 1..Len(m.content.chars) :
                  m.content.chars[i] \notin {"<", ">", "\"", "'", "/"}

\* the text "<<" was typed and sent: it is stored and broadcast as two
\* entities
C18_Witness ==
    /\ lastEvent.event = "message"
    /\ \E m \in Range(messages) :
          /\ m.type = "text"
          /\ m.content.chars = <<"&", "l", "t", ";", "&", "l", "t", ";">>
          /\ \E e \in emitted : e.event = "new-message" /\ e.msgs = <<m>>

\* C19: a message admitted to the ledger, and the new-message that carries
\* it, has the fields the client sent: type, content, seenOnce,
\* disappearingPhoto, replyTo and duration.
C19_RoundTrip ==
    [][ \A data \in Inputs(ChatSender) :
          (handleMessage(ChatSender, data) /\ messages' # messages)
              => LET m == Head(messages')
                 IN  /\ \A f \in {"type", "content", "seenOnce", "disappearingPhoto",
                                   "replyTo", "duration"} : Field(m, f) = data[f]
                     /\ \A e \in emitted' : e.event = "new-message" => e.msgs = <<m>>
      ]_vars

\* C20: a message event from a connection that has not joined is answered
\* with an error event to that connection, is not stored and not broadcast,
\* and the connection stays open.
C20_NotJoinedRejected ==
    (lastEvent.event = "message" /\ lastEvent.socket \notin chatRoom) =>
        /\ lastEvent.id = 0
        /\ \E e \in emitted :
              e.to = lastEvent.socket /\ e.event \in {"error", "message-error"}
        /\ \A e \in emitted : e.event # "new-message"
        /\ status[lastEvent.socket] = "open"

\* C21: a join from a connection that has not logged in is answered with an
\* error to that connection only: no messages-history, no user-joined, and
\* the connection is not in the room.
C21_JoinNeedsLogin ==
    (lastEvent.event = "join" /\ connectedUsers[lastEvent.socket] = NoUser) =>
        /\ emitted # {}
        /\ \A e \in emitted : e.event = "error" /\ e.to = lastEvent.socket
        /\ lastEvent.socket \notin chatRoom

\* a connection that has not logged in has sent join while the other
\* participant is joined
C21_Witness ==
    /\ lastEvent.event = "join"
    /\ connectedUsers[lastEvent.socket] = NoUser
    /\ chatRoom # {}

\* C22: on a successful join the whole ledger is sent as messages-history to
\* the joining connection only, and user-joined with the joiner's identity
\* to the other joined connections and not to the joiner.
C22_JoinSnapshotAndNotice ==
    (lastEvent.event = "join" /\ connectedUsers[lastEvent.socket] # NoUser) =>
        /\ lastEvent.socket \in chatRoom
        /\ {e \in emitted : e.event = "messages-history"}
              = {Ev(lastEvent.socket, "messages-history", 0, NoUser, "", messages)}
        /\ {e \in emitted : e.event # "messages-history"}
              = {Ev(t, "user-joined", 0, connectedUsers[lastEvent.socket], "", << >>)
                    : t \in chatRoom \ {lastEvent.socket}}

\* a participant joined while the other one was joined and the ledger held a
\* message
C22_Witness ==
    /\ lastEvent.event = "join"
    /\ connectedUsers[lastEvent.socket] # NoUser
    /\ chatRoom \ {lastEvent.socket} # {}
    /\ messages # << >>

\* C23: a login with a valid secret whose identity is held by a live session
\* is refused with an error that differs from the error for an invalid
\* secret.
C23_AlreadyConnectedDistinct ==
    \A s \in Sockets :
        ( /\ lastEvent.event = "login"
          /\ lastEvent.key \in VALID_KEYS
          /\ s # lastEvent.socket
          /\ connectedUsers[s] = getUsername(lastEvent.key) )
            => \A e \in emitted :
                  /\ e.event = "login-error"
                  /\ e.error # loginOutcome(activeConnections, "wrong")

\* C24: a login is answered "Room is full" exactly when its secret is valid,
\* the registry holds 2 identities and the secret's identity is not one of
\* them; with the two secrets of the credential table that never happens, so
\* "Room is full" is never sent.
C24_RoomFullNeverSent ==
    /\ \A secretKey \in Secrets :
          (loginOutcome(activeConnections, secretKey) = "Room is full")
              <=> /\ secretKey \in VALID_KEYS
                  /\ Cardinality(activeConnections) >= 2
                  /\ getUsername(secretKey) \notin activeConnections
    /\ \A secretKey \in Secrets :
          loginOutcome(activeConnections, secretKey) # "Room is full"
    /\ \A e \in emitted : e.error # "Room is full"

\* the registry holds 2 identities and a login has just been refused
C24_Witness ==
    /\ Cardinality(activeConnections) = 2
    /\ lastEvent.event = "login"
    /\ lastEvent.key \in VALID_KEYS
    /\ \E e \in emitted : e.event = "login-error" /\ e.error = "Invalid credentials"

\* C24 as stated: "Room is full" is an outcome some login can get, so when
\* the registry is at capacity some secret is answered with it.
C24_RoomFullReachable ==
    Cardinality(activeConnections) >= 2
        => \E secretKey \in Secrets :
              loginOutcome(activeConnections, secretKey) = "Room is full"

\* C25: a login with a secret that resolves to no identity sends login-error
\* to the sending connection only and leaves the registry, the session map
\* and the ledger unchanged; the connection stays open, and a login with a
\* valid secret whose identity is free would then succeed.
C25_InvalidLoginHarmless ==
    [][ (lastEvent'.event = "login" /\ lastEvent'.key \notin VALID_KEYS) =>
          /\ emitted' # {}
          /\ \A e \in emitted' : e.event = "login-error" /\ e.to = lastEvent'.socket
          /\ activeConnections' = activeConnections
          /\ connectedUsers' = connectedUsers
          /\ messages' = messages
          /\ status'[lastEvent'.socket] = "open"
          /\ \A secretKey \in VALID_KEYS :
                getUsername(secretKey) \notin activeConnections'
                    => loginOutcome(activeConnections', secretKey) = "ok"
      ]_vars

\* a login with an unknown secret was refused while the other participant
\* is logged in, the ledger holds a message and an identity is free
C25_Witness ==
    /\ lastEvent.event = "login"
    /\ lastEvent.key \notin VALID_KEYS
    /\ connectedUsers[lastEvent.socket] = NoUser
    /\ Cardinality(activeConnections) = 1
    /\ messages # << >>

\* C26: when an authenticated connection disconnects, its identity leaves the
\* registry, user-left with the identity goes to the remaining joined
\* connections and to no one else, the other sessions are untouched, and the
\* ledger is untouched unless the registry became empty.
C26_DisconnectDeregisters ==
    [][ (lastEvent'.event = "disconnect" /\ connectedUsers[lastEvent'.socket] # NoUser) =>
          LET s == lastEvent'.socket
              user == connectedUsers[s]
          IN  /\ activeConnections' = activeConnections \ {user}
              /\ emitted' = {Ev(t, "user-left", 0, user, "", << >>) : t \in chatRoom \ {s}}
              /\ \A t \in Sockets \ {s} :
                    /\ connectedUsers'[t] = connectedUsers[t]
                    /\ status'[t] = status[t]
                    /\ (t \in chatRoom') = (t \in chatRoom)
              /\ messages' = IF activeConnections' = {} THEN << >> ELSE messages
      ]_vars

\* a participant disconnected while the other one stayed joined: user-left
\* was sent and the ledger kept its message
C26_Witness ==
    /\ lastEvent.event = "disconnect"
    /\ \E e \in emitted : e.event = "user-left"
    /\ activeConnections # {}
    /\ messages # << >>

\* C27: the disconnect of a session takes its identity out of the registry
\* once, and a message, join or seen-once-viewed of a connection that is
\* handled after the connection's disconnect changes neither the ledger nor
\* the registry nor the room and sends nothing to any other connection.
C27_DeregisteredOnceThenInert ==
    [][ LET s == lastEvent'.socket
        IN  /\ (lastEvent'.event = "disconnect" /\ connectedUsers[s] # NoUser) =>
                  /\ connectedUsers[s] \in activeConnections
                  /\ activeConnections' = activeConnections \ {connectedUsers[s]}
                  /\ connectedUsers'[s] = NoUser
            /\ ( /\ lastEvent'.event \in {"message", "join", "seen-once-viewed"}
                 /\ status[s] = "closed" ) =>
                  /\ messages' = messages
                  /\ activeConnections' = activeConnections
                  /\ connectedUsers' = connectedUsers
                  /\ chatRoom' = chatRoom
                  /\ \A e \in emitted' : e.to = s
      ]_vars

\* a message of a closed connection has been handled while the other
\* participant is joined and the ledger holds a message
C27_Witness ==
    /\ lastEvent.event = "message"
    /\ status[lastEvent.socket] = "closed"
    /\ chatRoom # {}
    /\ messages # << >>

\* C28: an offer, answer, ice-candidate, video-state-change or
\* hold-state-change is delivered with the payload it came with to every
\* other joined connection and not to the sender, and relaying it changes
\* neither the ledger nor the registry.
C28_RelayedUnmodified ==
    [][ lastEvent'.event \in RelayedEvents =>
          /\ emitted' = {Ev(t, lastEvent'.event, 0, NoUser, "", lastEvent'.data)
                            : t \in chatRoom \ {lastEvent'.socket}}
          /\ lastEvent'.data # << >>
          /\ messages' = messages
          /\ activeConnections' = activeConnections
      ]_vars

\* a joined participant's payload with a from field of its own has been
\* relayed to the other joined participant
C28_Witness ==
    /\ lastEvent.event \in RelayedEvents
    /\ lastEvent.socket \in chatRoom
    /\ emitted # {}
    /\ lastEvent.data[1].from # Undefined

\* C29: the from field of every relayed call-start and call-end is the
\* identity the sending connection logged in with, whatever from the
\* client's payload carries.
C29_FromIsSenderIdentity ==
    lastEvent.event \in {"call-start", "call-end"} =>
        \A e \in emitted :
            /\ connectedUsers[lastEvent.socket] \in activeConnections
            /\ e.msgs[1].from = Some(connectedUsers[lastEvent.socket])

\* C30: a signaling event is relayed only when its sender is joined: one
\* from a connection that is not in the room reaches no connection.
C30_RelayOnlyWhenJoined ==
    (lastEvent.event \in SignalEvents /\ lastEvent.socket \notin chatRoom)
        => emitted = {}

\* C31: a message-reaction of a joined connection for a message that is in
\* the ledger is relayed to the other joined connection with the reactor's
\* identity.
C31_ReactionRelayed ==
    ( /\ lastEvent.event = "message-reaction"
      /\ lastEvent.socket \in chatRoom
      /\ lastEvent.id \in Ids(messages) ) =>
        \A t \in chatRoom \ {lastEvent.socket} :
            \E e \in emitted :
                /\ e.to = t
                /\ e.event = "message-reaction"
                /\ e.id = lastEvent.id
                /\ e.user = connectedUsers[lastEvent.socket]

\* C32: a message-reaction for a message id that is no longer in the ledger
\* changes no message on the server or on a client, sends no error and no
\* reaction event, and the client's listener leaves a list without the id as
\* it is.
C32_ReactionToMissingIsNoOp ==
    [][ ( /\ lastEvent'.event = "message-reaction"
          /\ lastEvent'.id \notin Ids(messages) ) =>
            /\ messages' = messages
            /\ clientMessages' = clientMessages
            /\ \A e \in emitted' :
                  e.event \notin {"error", "message-error", "message-reaction"}
            /\ \A s \in Sockets :
                  lastEvent'.id \notin Ids(clientMessages[s]) =>
                      messageReactionListener(clientMessages[s], lastEvent'.id, "heart",
                                              connectedUsers[lastEvent'.socket])
                          = clientMessages[s]
      ]_vars

\* with both participants joined, one of them reacted to a message the
\* ledger no longer holds, and a client shows messages without it
C32_Witness ==
    /\ lastEvent.event = "message-reaction"
    /\ lastEvent.id \notin Ids(messages)
    /\ chatRoom = ChatSockets
    /\ \E s \in ChatSockets :
          clientMessages[s] # << >> /\ lastEvent.id \notin Ids(clientMessages[s])

\* C33: verifyToken returns a payload only for a token of three parts whose
\* signature is the keyed MAC of its header and payload; a token whose
\* header, payload or signature was altered is rejected at every time, and
\* App takes no identity from it.
C33_OnlySignedTokensVerify ==
    /\ \A token \in AlteredTokens, t \in Instants : ~verifyToken(token, t).valid
    /\ (lastEvent.event = "checkSession" /\ lastEvent.data # << >>) =>
          LET token == lastEvent.data[1]
          IN  /\ app.isAuthenticated =>
                    /\ Len(token) = 3
                    /\ token[3] = sign(signedPart(token[1], token[2]), JWT_SECRET)
              /\ token \in AlteredTokens =>
                    /\ ~app.isAuthenticated
                    /\ app.currentUser = ""

\* the session endpoint has been given, before the expiry of the genuine
\* token, a token whose payload names the other identity
C33_Witness ==
    /\ lastEvent.event = "checkSession"
    /\ lastEvent.data # << >>
    /\ lastEvent.data[1] \in AlteredTokens
    /\ Len(lastEvent.data[1]) = 3
    /\ parse(base64UrlDecode(lastEvent.data[1][2])).username
          # getUsername(issued[1].secretKey)
    /\ now < DAY_MS - SECOND

\* C34 in whole seconds: a token generated at time t for a valid secret
\* verifies, and yields the secret's identity, at every time whose second is
\* before the second of t plus 24 hours, and is rejected from that second
\* on; generateToken for an invalid secret stores and issues nothing.
C34_ValidFor24hOfSeconds ==
    [][ /\ (issued # << >> /\ app.loading /\ ~app'.loading
                /\ localStorage = <<Genuine>>) =>
              /\ app'.isAuthenticated
                    <=> (now \div SECOND) < (issued[1].at \div SECOND) + DAY
              /\ app'.isAuthenticated =>
                    app'.currentUser = getUsername(issued[1].secretKey)
        /\ (lastEvent'.event = "generateToken" /\ lastEvent'.key \notin VALID_KEYS) =>
              UNCHANGED << localStorage, issued >>
        /\ issued' # << >> =>
              \A t \in Instants :
                  LET decoded == verifyToken(
                                     generateToken(issued'[1].secretKey, issued'[1].at), t)
                  IN  /\ decoded.valid
                            <=> (t \div SECOND) < (issued'[1].at \div SECOND) + DAY
                      /\ decoded.valid =>
                            decoded.payload[1].username
                                = getUsername(issued'[1].secretKey)
      ]_vars

\* a token generated in the middle of a second has been accepted in the last
\* millisecond of its last second
C34_Witness ==
    /\ lastEvent.event = "checkSession"
    /\ app.isAuthenticated
    /\ issued # << >>
    /\ issued[1].at % SECOND # 0
    /\ now = ((issued[1].at \div SECOND) + DAY) * SECOND - 1

\* C34 as stated: the token verifies at every time before t + 24h and is
\* rejected at every time at or after t + 24h.
C34_ValidForExactly24h ==
    (issued # << >> /\ localStorage = <<Genuine>>) =>
        (verifyToken(Genuine, now).valid <=> now < issued[1].at + DAY_MS)

\* C35: in every reachable state the presence registry is exactly the set
\* of identities bound to the connected sockets.
C35_RegistryIsBoundIdentities ==
    activeConnections
        = {connectedUsers[s] : s \in {t \in Sockets : status[t] = "open"}} \ {NoUser}

\* C36: when the browser logs in again on a new socket after its transport
\* dropped, the login succeeds whether or not the server has handled the old
\* socket's disconnect: a login with a valid secret whose identity is held
\* by dropped sockets only is answered with login-success.
C36_ReconnectLoginSucceeds ==
    ( /\ lastEvent.event = "login"
      /\ lastEvent.key \in VALID_KEYS
      /\ \A t \in Sockets \ {lastEvent.socket} :
            connectedUsers[t] = getUsername(lastEvent.key) => t \in dropped ) =>
        \E e \in emitted : e.event = "login-success"

\* C37: a browser that starts with a stored token the session endpoint
\* reports valid, and whose identity has no live session, gets through the
\* socket login: the login ChatRoom sends for it is not refused.
C37_StoredTokenLogsIn ==
    ( /\ lastEvent.event = "login"
      /\ issued # << >>
      /\ lastEvent.key = verifyToken(Genuine, now).payload[1].username
      /\ \A t \in Sockets \ {lastEvent.socket} :
            connectedUsers[t] # getUsername(issued[1].secretKey) ) =>
        \E e \in emitted : e.event = "login-success"

\* C39: a message that handleMessage stores carries as senderKey the
\* identity its connection logged in as (the one of the participant's own
\* secret, the one login-success told the client), whatever sender the
\* payload names, and the messages that were stored before keep theirs.
C39_SenderKeyIsLoginIdentity ==
    [][ (lastEvent'.event = "message" /\ nextId' = nextId + 1) =>
            LET s == lastEvent'.socket
                message == messages'[1]
            IN  /\ message.id = nextId
                /\ message.senderKey = getUsername(SecretOf(s))
                /\ message.senderKey = currentUser[s]
                /\ \A i \in 1..Len(messages) :
                      messages'[i + 1].senderKey = messages[i].senderKey ]_vars

\* C39 happens: a participant's payload named the other identity and the
\* message is in the ledger under the participant's own.
C39_Witness ==
    /\ lastEvent.event = "message"
    /\ lastEvent.data # Undefined
    /\ \E i \in 1..Len(messages) :
          /\ messages[i].id = lastEvent.id
          /\ messages[i].senderKey # lastEvent.data[1]
          /\ messages[i].senderKey = getUsername(SecretOf(lastEvent.socket))

\* C40: messages-history, new-message and message-removed reach only
\* connections that are logged in and in the room, and no event that carries
\* a message or a message id reaches a connection that is not logged in.
C40_ContentOnlyToJoined ==
    \A e \in emitted :
        /\ e.event \in {"messages-history", "new-message", "message-removed"} =>
              (e.to \in chatRoom /\ connectedUsers[e.to] # NoUser)
        /\ (e.msgs # << >> \/ e.id # 0) => connectedUsers[e.to] # NoUser

\* C40 happens: a message is broadcast while a connection that has not
\* logged in is open.
C40_Witness ==
    /\ lastEvent.event = "message"
    /\ \E e \in emitted : e.event = "new-message"
    /\ \E t \in Sockets : status[t] = "open" /\ connectedUsers[t] = NoUser

\* C38: a client gets local media and a peer connection, or emits an answer,
\* only while its user has started the call or accepted the incoming one: not
\* while the incoming call is pending, after it was declined, or after the
\* call ended.
C38_AnswerOnlyAfterConsent ==
    [][ \A s \in Sockets :
            ( \/ ~callState[s].peerConnection /\ callState'[s].peerConnection
              \/ /\ Len(callState'[s].outbox) > Len(callState[s].outbox)
                 /\ callState'[s].outbox[Len(callState'[s].outbox)] = "answer" ) =>
                callState[s].consented ]_vars

====
